---- MODULE Spec2Model ----
(***************************************************************************)
(* A model of the monei voice assistant: the conversation adapters of      *)
(* llm_providers.py (GroqProvider.ask, MoneiProvider.ask and its SSE       *)
(* decoder), the chat handlers of server.py that share one process-wide    *)
(* chat_history, and the YarnGPT synthesis adapter of yarngpt_tts.py.      *)
(*                                                                         *)
(* Text is a sequence of one-character strings, so that str.strip(),       *)
(* str.title() and concatenation are computed and not assumed.             *)
(***************************************************************************)
EXTENDS Integers, Sequences, FiniteSets, TLC

VARIABLES
    provider,       \* the configured LLMProvider: "groq" or "monei"
    chat_history,   \* the list[dict] handed to ask: turns {role, content}
    appended,       \* history variable: every turn ever appended, in order
    call,           \* the ask call in progress or last finished
    nAsks,          \* number of ask calls started
    resp,           \* the lines of the event stream received so far
    syn,            \* the synthesize_speech call: its arguments and outcome
    out_file,       \* the content of the file at output_path, or "absent"
    reqs,           \* the chat requests of the server, each with its position
    loop,           \* the request whose handler the event loop runs, or 0
    audio_dir,      \* the files of AUDIO_DIR
    op,             \* the library call in progress or last finished
    disk,           \* the files the library works on: path -> content
    collected_files,\* SpeechPipeline.collected_files
    transcriptions, \* SpeechPipeline.transcriptions
    now,            \* time.time(), in seconds
    mtime,          \* st_mtime of the files of AUDIO_DIR
    vreqs           \* the requests that upload audio, each with its position

askVars == <<provider, chat_history, appended, call, nAsks, resp>>
synVars == <<syn, out_file>>
srvVars == <<reqs, loop, audio_dir>>
pipeVars == <<op, disk, collected_files, transcriptions>>
ttlVars == <<now, mtime>>
restVars == <<pipeVars, ttlVars, vreqs>>

vars ==
    <<provider, chat_history, appended, call, nAsks, resp, syn, out_file,
      reqs, loop, audio_dir, op, disk, collected_files, transcriptions,
      now, mtime, vreqs>>

-----------------------------------------------------------------------------
(* Bounds of the model *)

\* ask calls made in one behaviour of SpecAsk
MaxAsks == 3
\* lines of one event stream in SpecSSE
MaxLines == 3
\* whitespace characters put before and after a voice name
MaxPad == 1
\* how far beyond the limit the longest text goes
MaxOver == 2
\* chat requests made to the server in one behaviour of SpecServer
MaxReqs == 2

\* paths handed to one call of process_batch in SpecBatch
MaxFiles == 2

\* texts handed to one call of batch_synthesize
MaxTexts == 2

\* files collected by one pipeline in SpecPipeline
MaxCollected == 2
\* results the accumulator of one pipeline comes to hold
MaxTranscribed == 2

\* frames of one waveform in SpecNormalize
MaxFrames == 2

\* steps of one second that the clock of SpecAudio makes before and after
\* its step of a TTL
MaxSlack == 2

\* files in the tts_output directory beyond which nothing more is synthesized
MaxTtsFiles == 3

\* uploads made to the server in one behaviour of SpecVoice
MaxUploads == 2

(* Program constants *)

\* llm_providers.py:58,90   if len(chat_history) > 20
HistoryCap == 20
\* yarngpt_tts.py:84   if len(text) > 2000
MaxTextLen == 2000
\* yarngpt_tts.py:117  if response.status_code == 200
HttpOk == 200

\* processor.py:89   / 32768.0, which is 2^15
Int16ScaleBits == 15
\* processor.py:91   / 2147483648.0, which is 2^31
Int32ScaleBits == 31
\* processor.py:100  if sr != 16000
TargetRate == 16000

\* server.py:34   AUDIO_TTL = 300
AUDIO_TTL == 300

-----------------------------------------------------------------------------
(* Text *)

EmptyStr == <<>>

IsSpace(c) == c = " "

RECURSIVE LStrip(_)
\* str.lstrip(): drop the leading whitespace
LStrip(s) ==
    IF s = <<>> THEN <<>>
    ELSE IF IsSpace(Head(s)) THEN LStrip(Tail(s)) ELSE s

RECURSIVE RStrip(_)
\* str.rstrip(): drop the trailing whitespace
RStrip(s) ==
    IF s = <<>> THEN <<>>
    ELSE IF IsSpace(s[Len(s)]) THEN RStrip(SubSeq(s, 1, Len(s) - 1)) ELSE s

\* str.strip()
Strip(s) == RStrip(LStrip(s))

\* s has no leading or trailing whitespace
IsStripped(s) == s = <<>> \/ (~IsSpace(s[1]) /\ ~IsSpace(s[Len(s)]))

-----------------------------------------------------------------------------
(* Conversation history: llm_providers.py *)

UserTurn(user_text) == [role |-> "user", content |-> user_text]

\* a slip that records an assistant turn without the reply's text
AssistantTurnLost(reply) == [role |-> "assistant", content |-> EmptyStr]

AssistantTurn(reply) == [role |-> "assistant", content |-> reply]

\* chat_history[-n:]
LastN(h, n) == IF Len(h) <= n THEN h ELSE SubSeq(h, Len(h) - n + 1, Len(h))

\* chat_history[:n]
FirstN(h, n) == IF Len(h) <= n THEN h ELSE SubSeq(h, 1, n)

\* a slip that keeps the oldest entries: chat_history[:20]
TruncateKeepsOldest(h) == IF Len(h) > HistoryCap THEN FirstN(h, HistoryCap) ELSE h

\* if len(chat_history) > 20: chat_history[:] = chat_history[-20:]
Truncate(h) == IF Len(h) > HistoryCap THEN LastN(h, HistoryCap) ELSE h

\* a slip that sends the user turn without recording it in the history
AppendUserUnrecorded(h, user_text) == Truncate(h)

\* chat_history.append(user turn), then the truncation: the first lines of ask
AppendUser(h, user_text) == Truncate(Append(h, UserTurn(user_text)))

\* chat_history.append(assistant turn): the last lines of ask (no truncation)
AppendAssistant(h, reply) == Append(h, AssistantTurn(reply))

-----------------------------------------------------------------------------
(* str.title(), used on the voice name: yarngpt_tts.py:88 *)

LowerCase ==
    <<"a", "b", "c", "d", "e", "f", "g", "h", "i", "j", "k", "l", "m",
      "n", "o", "p", "q", "r", "s", "t", "u", "v", "w", "x", "y", "z">>
UpperCase ==
    <<"A", "B", "C", "D", "E", "F", "G", "H", "I", "J", "K", "L", "M",
      "N", "O", "P", "Q", "R", "S", "T", "U", "V", "W", "X", "Y", "Z">>

LetterIndex(c) ==
    IF \E i \in 1..Len(LowerCase) : LowerCase[i] = c \/ UpperCase[i] = c
    THEN CHOOSE i \in 1..Len(LowerCase) : LowerCase[i] = c \/ UpperCase[i] = c
    ELSE 0

\* a cased character: a letter
IsCased(c) == LetterIndex(c) # 0

ToLower(c) == IF IsCased(c) THEN LowerCase[LetterIndex(c)] ELSE c
ToUpper(c) == IF IsCased(c) THEN UpperCase[LetterIndex(c)] ELSE c

RECURSIVE TitleFrom(_, _)
\* str.title() on the rest of a string: a cased character is upper-cased
\* when the character before it is not cased and lower-cased when it is
TitleFrom(s, previous_is_cased) ==
    IF s = <<>> THEN <<>>
    ELSE <<IF ~IsCased(Head(s)) THEN Head(s)
           ELSE IF previous_is_cased THEN ToLower(Head(s)) ELSE ToUpper(Head(s))>>
         \o TitleFrom(Tail(s), IsCased(Head(s)))

Title(s) == TitleFrom(s, FALSE)

-----------------------------------------------------------------------------
(* synthesize_speech: yarngpt_tts.py:55-128 *)

\* the keys of YARNGPT_VOICES
YARNGPT_VOICES ==
    {<<"I", "d", "e", "r", "a">>, <<"E", "m", "m", "a">>,
     <<"Z", "a", "i", "n", "a", "b">>, <<"O", "s", "a", "g", "i", "e">>,
     <<"J", "u", "d", "e">>, <<"C", "h", "i", "n", "e", "n", "y", "e">>,
     <<"T", "a", "y", "o">>, <<"R", "e", "g", "i", "n", "a">>,
     <<"A", "d", "a", "o", "r", "a">>, <<"U", "m", "a", "r">>,
     <<"M", "a", "r", "y">>, <<"N", "o", "n", "s", "o">>,
     <<"R", "e", "m", "i">>, <<"A", "d", "a", "m">>}

\* ("mp3", "wav", "opus", "flac")
RESPONSE_FORMATS == {"mp3", "wav", "opus", "flac"}

\* a slip that also rejects a text of exactly the limit
TextTooLongAtLimit(text) == Len(text) >= MaxTextLen

\* if len(text) > 2000: raise ValueError
TextTooLong(text) == Len(text) > MaxTextLen

\* a slip that strips the name and leaves its case alone
NormalizeVoiceKeepsCase(voice) == Strip(voice)

\* voice = voice.strip().title()
NormalizeVoice(voice) == Title(Strip(voice))

\* payload = {"text": text, "voice": voice, "response_format": response_format}
Payload(text, voice, response_format) ==
    [text |-> text, voice |-> voice, response_format |-> response_format]

\* the checks made before the request, in the order of the code: the error
\* raised, or "none"
Validate(text, voice, response_format, has_key) ==
    IF TextTooLong(text) THEN "TextTooLong"
    ELSE IF NormalizeVoice(voice) \notin YARNGPT_VOICES THEN "UnknownVoice"
    ELSE IF response_format \notin RESPONSE_FORMATS THEN "InvalidFormat"
    ELSE IF ~has_key THEN "MissingApiKey"
    ELSE "none"

\* a slip that saves the body of whatever response came back
WritesOnAnyStatus(status_code) == TRUE

\* if response.status_code == 200
IsSuccess(status_code) == status_code = HttpOk

NoPayload == [text |-> <<>>, voice |-> <<>>, response_format |-> "none"]

NoSynth ==
    [pc |-> "idle", text |-> <<>>, voice |-> <<>>, response_format |-> "mp3",
     has_key |-> TRUE, file_before |-> "absent", error |-> "none",
     sent |-> FALSE, payload |-> NoPayload, status_code |-> 0]

\* the call is rejected before any request is made
SynthesizeRejected ==
    /\ syn.pc = "called"
    /\ Validate(syn.text, syn.voice, syn.response_format, syn.has_key) # "none"
    /\ syn' = [syn EXCEPT !.pc = "raised",
                   !.error = Validate(syn.text, syn.voice, syn.response_format,
                                      syn.has_key)]
    /\ UNCHANGED out_file
    /\ UNCHANGED <<askVars, srvVars, restVars>>

\* the request is made and the service answers with status_code and a body
SynthesizeAnswered(status_code) ==
    /\ syn.pc = "called"
    /\ Validate(syn.text, syn.voice, syn.response_format, syn.has_key) = "none"
    /\ LET payload == Payload(syn.text, NormalizeVoice(syn.voice), syn.response_format) IN
        IF IsSuccess(status_code)
        THEN /\ out_file' = "audio"
             /\ syn' = [syn EXCEPT !.pc = "returned", !.sent = TRUE,
                            !.payload = payload, !.status_code = status_code]
        ELSE /\ out_file' = out_file
             /\ syn' = [syn EXCEPT !.pc = "raised", !.error = "SynthesisFailed",
                            !.sent = TRUE, !.payload = payload,
                            !.status_code = status_code]
    /\ UNCHANGED <<askVars, srvVars, restVars>>

\* requests.post raises: no response arrives
SynthesizeNoResponse ==
    /\ syn.pc = "called"
    /\ Validate(syn.text, syn.voice, syn.response_format, syn.has_key) = "none"
    /\ syn' = [syn EXCEPT !.pc = "raised", !.error = "ConnectionError",
                   !.sent = TRUE,
                   !.payload = Payload(syn.text, NormalizeVoice(syn.voice),
                                       syn.response_format)]
    /\ UNCHANGED out_file
    /\ UNCHANGED <<askVars, srvVars, restVars>>

(* Inputs of synthesize_speech *)

Spaces(n) == [i \in 1..n |-> " "]

\* a text of n characters
TextOfLen(n) == [i \in 1..n |-> "x"]

TextLens ==
    {0, 1, MaxTextLen - 1, MaxTextLen, MaxTextLen + 1, MaxTextLen + MaxOver}

\* every way of writing the letters of name in upper or lower case
Casings(name) ==
    {[i \in 1..Len(name) |-> IF i \in U THEN ToUpper(name[i]) ELSE ToLower(name[i])] :
        U \in SUBSET (1..Len(name))}

\* names that are no voice
OtherNames ==
    {<<>>, <<"B", "o", "b">>, <<"I", "d", "e", "r">>, <<"E", "m", " ", "m", "a">>,
     <<"A", "d", "a", "-", "m">>}

Padded(S) == {Spaces(l) \o v \o Spaces(r) : v \in S, l \in 0..MaxPad, r \in 0..MaxPad}

\* every casing of every voice and of the other names, with whitespace around
VoiceInputs == Padded(UNION {Casings(name) : name \in YARNGPT_VOICES \cup OtherNames})

\* a few voice arguments
SomeVoices ==
    {<<"I", "d", "e", "r", "a">>, <<"e", "M", "M", "a">>, <<"B", "o", "b">>}

FormatInputs == RESPONSE_FORMATS \cup {"ogg", "MP3"}

SynthCall(text, voice, response_format, has_key, file_before) ==
    [NoSynth EXCEPT !.pc = "called", !.text = text, !.voice = voice,
                    !.response_format = response_format, !.has_key = has_key,
                    !.file_before = file_before]

-----------------------------------------------------------------------------
(* MoneiProvider._parse_sse: llm_providers.py:112-128 *)

\* One line of resp.iter_lines(): blank, a line that does not start with
\* "data: " (kind "comment"), or a data line whose JSON object carries an
\* event name and a data text (an absent "data" key reads as "").
Line(kind, data) == [kind |-> kind, data |-> data]

\* if not line or not line.startswith("data: "): continue
IsDataLine(line) == line.kind \notin {"blank", "comment"}

\* a slip that appends the final payload to the buffer
CompleteTextAppends(full_text, data) == full_text \o Strip(data)

\* event "complete": full_text = payload.get("data", "").strip()
CompleteText(full_text, data) == Strip(data)

\* a slip that replaces the buffer by the last token
TokenTextReplaces(full_text, data) == data

\* event "token": full_text += payload.get("data", "")
TokenText(full_text, data) == full_text \o data

\* a slip that lets an empty reply through
NeverEmptyResponse(full_text) == FALSE

\* if not full_text: raise RuntimeError("Monei API returned an empty response")
IsEmptyResponse(full_text) == full_text = EmptyStr

RECURSIVE SseLoop(_, _, _)
\* the for loop over the lines, from line i on with the buffer full_text:
\* the buffer at the end and the number of lines read from the stream
SseLoop(lines, i, full_text) ==
    IF i > Len(lines) THEN [full_text |-> full_text, read |-> Len(lines)]
    ELSE IF ~IsDataLine(lines[i]) THEN SseLoop(lines, i + 1, full_text)
    ELSE IF lines[i].kind = "complete"
         THEN [full_text |-> CompleteText(full_text, lines[i].data), read |-> i]
    ELSE IF lines[i].kind = "token"
         THEN SseLoop(lines, i + 1, TokenText(full_text, lines[i].data))
    ELSE SseLoop(lines, i + 1, full_text)

\* _parse_sse(resp): the reply, or the RuntimeError of an empty response
ParseSSE(lines) ==
    LET r == SseLoop(lines, 1, EmptyStr) IN
    IF IsEmptyResponse(r.full_text)
    THEN [ok |-> FALSE, error |-> "EmptyResponse", reply |-> EmptyStr, read |-> r.read]
    ELSE [ok |-> TRUE, error |-> "none", reply |-> r.full_text, read |-> r.read]

-----------------------------------------------------------------------------
(* Inputs *)

UserTexts == {<<"h", "i">>, <<"y", "o">>}

\* completion.choices[0].message.content: None or a text
NoContent == [isNone |-> TRUE, text |-> EmptyStr]
Content(t) == [isNone |-> FALSE, text |-> t]
GroqContents ==
    {NoContent, Content(<<>>), Content(<<" ">>), Content(<<"o", "k">>),
     Content(<<" ", "n", "o", " ">>)}

PayloadTexts == {<<>>, <<" ">>, <<"a">>, <<" ", "b">>, <<"c", " ">>}

Lines ==
    {Line("blank", EmptyStr), Line("comment", EmptyStr)}
    \cup {Line(k, d) : k \in {"complete", "token", "ping"}, d \in PayloadTexts}

\* the event streams answered in SpecAsk
AskStreams ==
    {<<>>,
     <<Line("token", <<"a">>), Line("token", <<" ", "b">>)>>,
     <<Line("token", <<"a">>), Line("complete", <<"c", " ">>), Line("token", <<"a">>)>>,
     <<Line("blank", EmptyStr), Line("complete", <<" ">>)>>}

Digit == <<"0", "1", "2", "3", "4", "5", "6", "7", "8", "9">>

\* the i-th turn of a history built by earlier calls
OldTurn(i) ==
    [role |-> IF i % 2 = 1 THEN "user" ELSE "assistant",
     content |-> <<"t", Digit[(i \div 10) + 1], Digit[(i % 10) + 1]>>]

OldHistory(n) == [i \in 1..n |-> OldTurn(i)]

-----------------------------------------------------------------------------
(* ask: llm_providers.py:56-73 (Groq) and 88-110 (Monei) *)

NoCall ==
    [pc |-> "idle", user_text |-> EmptyStr, lines |-> <<>>, read |-> 0,
     reply |-> EmptyStr, error |-> "none", before |-> <<>>,
     content |-> NoContent]

\* content or "", were None rendered as text
OrEmptyNoneAsText(content) ==
    IF content.isNone THEN <<"N", "o", "n", "e">> ELSE content.text

\* content or ""
OrEmpty(content) == IF content.isNone \/ content.text = EmptyStr THEN EmptyStr ELSE content.text

\* ask is entered: the user turn is appended and the history truncated, and
\* the request to the backend is sent
AskBegin(user_text) ==
    /\ call.pc # "waiting"
    /\ nAsks < MaxAsks
    /\ chat_history' = AppendUser(chat_history, user_text)
    /\ appended' = Append(appended, UserTurn(user_text))
    /\ call' = [NoCall EXCEPT !.pc = "waiting", !.user_text = user_text,
                              !.before = chat_history]
    /\ nAsks' = nAsks + 1
    /\ UNCHANGED <<provider, resp>>
    /\ UNCHANGED <<synVars, srvVars, restVars>>

\* GroqProvider.ask, lines 65-73: the completion arrives
GroqComplete(content) ==
    /\ provider = "groq"
    /\ call.pc = "waiting"
    /\ LET reply == Strip(OrEmpty(content)) IN
        /\ chat_history' = AppendAssistant(chat_history, reply)
        /\ appended' = Append(appended, AssistantTurn(reply))
        /\ call' = [call EXCEPT !.pc = "returned", !.reply = reply,
                                !.content = content]
    /\ UNCHANGED <<provider, nAsks, resp>>
    /\ UNCHANGED <<synVars, srvVars, restVars>>

\* GroqProvider.ask, line 65: completions.create raises
GroqError ==
    /\ provider = "groq"
    /\ call.pc = "waiting"
    /\ call' = [call EXCEPT !.pc = "raised", !.error = "BackendError"]
    /\ UNCHANGED <<provider, chat_history, appended, nAsks, resp>>
    /\ UNCHANGED <<synVars, srvVars, restVars>>

\* MoneiProvider.ask, lines 99-106: requests.post or raise_for_status raises
MoneiHttpError ==
    /\ provider = "monei"
    /\ call.pc = "waiting"
    /\ call' = [call EXCEPT !.pc = "raised", !.error = "BackendError"]
    /\ UNCHANGED <<provider, chat_history, appended, nAsks, resp>>
    /\ UNCHANGED <<synVars, srvVars, restVars>>

\* MoneiProvider.ask, lines 108-110: the event stream is decoded
MoneiStream(lines) ==
    /\ provider = "monei"
    /\ call.pc = "waiting"
    /\ LET r == ParseSSE(lines) IN
        IF r.ok
        THEN /\ chat_history' = AppendAssistant(chat_history, r.reply)
             /\ appended' = Append(appended, AssistantTurn(r.reply))
             /\ call' = [call EXCEPT !.pc = "returned", !.reply = r.reply,
                                     !.lines = lines, !.read = r.read]
        ELSE /\ call' = [call EXCEPT !.pc = "raised", !.error = r.error,
                                     !.lines = lines, !.read = r.read]
             /\ UNCHANGED <<chat_history, appended>>
    /\ UNCHANGED <<provider, nAsks, resp>>
    /\ UNCHANGED <<synVars, srvVars, restVars>>

\* the service sends one more line of the event stream of the pending request
StreamLine(line) ==
    /\ provider = "monei"
    /\ call.pc = "waiting"
    /\ Len(resp) < MaxLines
    /\ resp' = Append(resp, line)
    /\ UNCHANGED <<provider, chat_history, appended, call, nAsks>>
    /\ UNCHANGED <<synVars, srvVars, restVars>>

-----------------------------------------------------------------------------
(* The chat handler of the server: server.py:20-25, 140-166 *)

Reqs == 1..MaxReqs

\* req.text of request r: requests are told apart by their text
TextOf(r) == <<"q", Digit[r + 1]>>

\* f"{file_id}_response.mp3"
ResponseFile(r) == <<"response", r>>

NoRequest ==
    [pc |-> "new", text |-> EmptyStr, voice |-> <<>>, reply |-> EmptyStr,
     error |-> "none", stage |-> "none"]

NoRequests == [r \in Reqs |-> NoRequest]

\* what the conversational service gives back to one request
Answer(kind, content, lines) == [kind |-> kind, content |-> content, lines |-> lines]

Answers ==
    {Answer("error", NoContent, <<>>)}
    \cup {Answer("content", c, <<>>) : c \in GroqContents}
    \cup {Answer("stream", NoContent, l) : l \in AskStreams}

\* the rest of ask once the service has answered: the reply or the exception
AskResult(prov, answer) ==
    IF answer.kind = "error"
    THEN [ok |-> FALSE, error |-> "BackendError", reply |-> EmptyStr]
    ELSE IF prov = "groq"
    THEN [ok |-> TRUE, error |-> "none", reply |-> Strip(OrEmpty(answer.content))]
    ELSE LET r == ParseSSE(answer.lines) IN
         [ok |-> r.ok, error |-> r.error, reply |-> r.reply]

\* a slip that runs the handlers side by side (a def handler in the
\* thread pool, or an await inside ask)
HandlerMayAlwaysRun(r) == TRUE

\* async def chat_text has no await: once the event loop has entered a
\* handler it runs no other handler until this one has returned or raised
HandlerMayRun(r) == loop = 0

\* the modification times once the files of dir that are new have been
\* written at time t
Stamp(times, dir, t) == [f \in dir |-> IF f \in DOMAIN times THEN times[f] ELSE t]

\* a POST /api/chat/text arrives and its body is validated: the handler is
\* ready to run
Receive(r, voice) ==
    /\ reqs[r].pc = "new"
    /\ reqs' = [reqs EXCEPT ![r] = [NoRequest EXCEPT !.pc = "ready",
                                        !.text = TextOf(r), !.voice = voice]]
    /\ UNCHANGED <<loop, audio_dir>>
    /\ UNCHANGED <<askVars, synVars, restVars>>

\* chat_text is entered and calls _ask_llm: ask appends the user turn,
\* truncates and sends the request
ChatAskBegin(r) ==
    /\ reqs[r].pc = "ready"
    /\ HandlerMayRun(r)
    /\ loop' = r
    /\ chat_history' = AppendUser(chat_history, reqs[r].text)
    /\ appended' = Append(appended, UserTurn(reqs[r].text))
    /\ reqs' = [reqs EXCEPT ![r].pc = "asking"]
    /\ UNCHANGED <<provider, call, nAsks, resp, audio_dir>>
    /\ UNCHANGED <<synVars, restVars>>

\* the service answers: ask appends the assistant turn and returns, or
\* raises and chat_text answers with HTTP 500
ChatAskEnd(r, answer) ==
    /\ reqs[r].pc = "asking"
    /\ answer.kind \in (IF provider = "groq" THEN {"error", "content"}
                        ELSE {"error", "stream"})
    /\ LET res == AskResult(provider, answer) IN
        IF res.ok
        THEN /\ chat_history' = AppendAssistant(chat_history, res.reply)
             /\ appended' = Append(appended, AssistantTurn(res.reply))
             /\ reqs' = [reqs EXCEPT ![r].pc = "asked", ![r].reply = res.reply]
             /\ UNCHANGED loop
        ELSE /\ reqs' = [reqs EXCEPT ![r].pc = "failed", ![r].error = res.error,
                                     ![r].stage = "ask"]
             /\ loop' = 0
             /\ UNCHANGED <<chat_history, appended>>
    /\ UNCHANGED <<provider, call, nAsks, resp, audio_dir>>
    /\ UNCHANGED <<synVars, restVars>>

\* chat_text calls synthesize_speech on the reply and returns the audio_url,
\* or answers with HTTP 500
ChatSynthesize(r, has_key, responded, status_code) ==
    /\ reqs[r].pc = "asked"
    /\ LET invalid == Validate(reqs[r].reply, reqs[r].voice, "mp3", has_key) IN
        IF invalid # "none"
        THEN /\ reqs' = [reqs EXCEPT ![r].pc = "failed", ![r].error = invalid,
                                     ![r].stage = "tts"]
             /\ UNCHANGED audio_dir
        ELSE IF ~responded
        THEN /\ reqs' = [reqs EXCEPT ![r].pc = "failed",
                                     ![r].error = "ConnectionError",
                                     ![r].stage = "tts"]
             /\ UNCHANGED audio_dir
        ELSE IF IsSuccess(status_code)
        THEN /\ reqs' = [reqs EXCEPT ![r].pc = "done"]
             /\ audio_dir' = audio_dir \cup {ResponseFile(r)}
        ELSE /\ reqs' = [reqs EXCEPT ![r].pc = "failed",
                                     ![r].error = "SynthesisFailed",
                                     ![r].stage = "tts"]
             /\ UNCHANGED audio_dir
    /\ mtime' = Stamp(mtime, audio_dir', now)
    /\ loop' = 0
    /\ UNCHANGED <<askVars, synVars, pipeVars, now, vreqs>>

-----------------------------------------------------------------------------
(* Paths and supported formats: collector.py:16-34 *)

\* a path: its directory, the stem of its name and Path(path).suffix
Path(dir, stem, suffix) == [dir |-> dir, stem |-> stem, suffix |-> suffix]

AUDIO_EXTENSIONS ==
    {<<".", "w", "a", "v">>, <<".", "m", "p", "3">>, <<".", "f", "l", "a", "c">>,
     <<".", "o", "g", "g">>, <<".", "m", "4", "a">>, <<".", "a", "a", "c">>,
     <<".", "w", "m", "a">>}

VIDEO_EXTENSIONS ==
    {<<".", "m", "p", "4">>, <<".", "m", "k", "v">>, <<".", "a", "v", "i">>,
     <<".", "m", "o", "v">>, <<".", "w", "e", "b", "m">>, <<".", "f", "l", "v">>,
     <<".", "w", "m", "v">>}

\* str.lower()
Lower(s) == [i \in 1..Len(s) |-> ToLower(s[i])]

\* Path(filepath).suffix.lower() in AUDIO_EXTENSIONS
is_audio(filepath) == Lower(filepath.suffix) \in AUDIO_EXTENSIONS

\* Path(filepath).suffix.lower() in VIDEO_EXTENSIONS
is_video(filepath) == Lower(filepath.suffix) \in VIDEO_EXTENSIONS

\* os.path.exists(path)
Exists(d, path) == path \in DOMAIN d

\* the disk after content has been written to path
WriteFile(d, path, content) ==
    [p \in DOMAIN d \cup {path} |-> IF p = path THEN content ELSE d[p]]

WavSuffix == <<".", "w", "a", "v">>

NoOp == [name |-> "none", pc |-> "idle"]

-----------------------------------------------------------------------------
(* Transcription of files: processor.py:34-67, 109-267 *)

\* what the media libraries do with one file: they cannot be imported, they
\* raise while the file is processed, or whisper gives back a text
Backend(kind, text) == [kind |-> kind, text |-> text]
Backends ==
    {Backend("unavailable", <<>>), Backend("error", <<>>)}
    \cup {Backend("text", t) : t \in {<<" ", "h", "i">>, <<>>}}

\* an exception of kind error, raised with the disk as it is
Failure(error, d) == [ok |-> FALSE, error |-> error, disk |-> d]

\* audio_path.rsplit(".", 1)[0] + "_converted.wav"
ConvertedPath(audio_path) ==
    Path(audio_path.dir, audio_path.stem \o <<"_converted">>, WavSuffix)

\* _ensure_wav when ffmpeg succeeds: the path itself for a .wav, else the path
\* of the converted file
ensure_wav(audio_path) ==
    IF Lower(audio_path.suffix) = WavSuffix THEN audio_path
    ELSE ConvertedPath(audio_path)

\* extract_audio_from_video: the path of the extracted audio, written to
\* output_dir under the stem of the video, or the exception
extract_audio_from_video(d, video_path, output_dir, backend) ==
    IF backend.kind = "unavailable" THEN Failure("ImportError", d)
    ELSE IF ~Exists(d, video_path) THEN Failure("FileNotFound", d)
    ELSE IF backend.kind = "error" THEN Failure("BackendError", d)
    ELSE LET audio_path == Path(output_dir, video_path.stem, WavSuffix) IN
         [ok |-> TRUE, audio_path |-> audio_path,
          disk |-> WriteFile(d, audio_path, "wav")]

\* the transcription dict
Transcript(audio_path, text) ==
    [audio_path |-> audio_path, text |-> text, language |-> "en", segments |-> <<>>]

\* transcribe_audio: the transcription dict, or the exception
transcribe_audio(d, audio_path, backend) ==
    IF backend.kind = "unavailable" THEN Failure("ImportError", d)
    ELSE IF ~Exists(d, audio_path) THEN Failure("FileNotFound", d)
    ELSE IF backend.kind = "error" THEN Failure("BackendError", d)
    ELSE [ok |-> TRUE,
          result |-> Transcript(audio_path, Strip(backend.text)),
          disk |-> IF ensure_wav(audio_path) = audio_path THEN d
                   ELSE WriteFile(d, ensure_wav(audio_path), "wav")]

\* process_file: a video has its audio extracted first, an audio file is
\* transcribed as it is, anything else is refused
process_file(d, filepath, backend) ==
    IF is_video(filepath)
    THEN LET x == extract_audio_from_video(d, filepath, "extracted_audio", backend) IN
         IF x.ok THEN transcribe_audio(x.disk, x.audio_path, backend) ELSE x
    ELSE IF is_audio(filepath) THEN transcribe_audio(d, filepath, backend)
    ELSE Failure("UnsupportedFormat", d)

\* a slip that records the failure without the path it belongs to
ErrorRecordWithoutPath(fp, e) == [audio_path |-> <<>>, error |-> e]

\* {"audio_path": fp, "error": str(e)}
ErrorRecord(fp, e) == [audio_path |-> fp, error |-> e]

\* process_batch is called on filepaths
BatchCall(filepaths, caller) ==
    [name |-> "process_batch", pc |-> "running", filepaths |-> filepaths,
     results |-> <<>>, backends |-> <<>>, caller |-> caller]

\* one turn of the loop of process_batch: the next path is processed and its
\* result, or the record of its failure, is appended
ProcessBatchItem(backend) ==
    /\ op.name = "process_batch"
    /\ op.pc = "running"
    /\ Len(op.results) < Len(op.filepaths)
    /\ LET fp == op.filepaths[Len(op.results) + 1]
           r == process_file(disk, fp, backend) IN
        /\ op' = [op EXCEPT
                    !.results = Append(@, IF r.ok THEN r.result
                                          ELSE ErrorRecord(fp, r.error)),
                    !.backends = Append(@, backend)]
        /\ disk' = r.disk
    /\ UNCHANGED <<collected_files, transcriptions>>
    /\ UNCHANGED <<askVars, synVars, srvVars, ttlVars, vreqs>>

\* the loop has gone through every path: return results
ProcessBatchReturn ==
    /\ op.name = "process_batch"
    /\ op.pc = "running"
    /\ Len(op.results) = Len(op.filepaths)
    /\ op' = [op EXCEPT !.pc = "returned"]
    /\ UNCHANGED <<disk, collected_files, transcriptions>>
    /\ UNCHANGED <<askVars, synVars, srvVars, ttlVars, vreqs>>

(* Inputs of the library *)

Mp3Suffix == <<".", "m", "p", "3">>

\* the files on the disk before the library is used
SourceFiles ==
    {Path("in", <<"a">>, WavSuffix), Path("in", <<"b">>, <<".", "M", "P", "3">>),
     Path("in", <<"c">>, <<".", "m", "p", "4">>),
     Path("in", <<"d">>, <<".", "t", "x", "t">>)}

\* paths of no file
MissingFiles ==
    {Path("in", <<"e">>, WavSuffix), Path("in", <<"f">>, <<".", "m", "p", "4">>),
     Path("in", <<"g">>, <<".", "x", "y", "z">>)}

SourceDisk == [p \in SourceFiles |-> <<"bytes of", p.stem>>]

\* every list of at most n elements of S
ListsOf(S, n) == UNION {[1..k -> S] : k \in 0..n}

-----------------------------------------------------------------------------
(* Synthesis of several texts: yarngpt_tts.py:146-184 *)

\* what the synthesis service does with one request
Service(has_key, responded, status_code) ==
    [has_key |-> has_key, responded |-> responded, status_code |-> status_code]

Services ==
    {Service(TRUE, TRUE, HttpOk), Service(TRUE, TRUE, 500),
     Service(TRUE, FALSE, 0), Service(FALSE, TRUE, HttpOk)}

\* synthesize_speech as its callers see it: the exception raised, or "none"
\* when the audio has been written to output_path
synthesize_speech(text, voice, response_format, service) ==
    LET invalid == Validate(text, voice, response_format, service.has_key) IN
    IF invalid # "none" THEN invalid
    ELSE IF ~service.responded THEN "ConnectionError"
    ELSE IF IsSuccess(service.status_code) THEN "none"
    ELSE "SynthesisFailed"

\* f"{n:03d}"
Pad3(n) ==
    <<Digit[((n \div 100) % 10) + 1], Digit[((n \div 10) % 10) + 1],
      Digit[(n % 10) + 1]>>

\* "." + response_format
FormatSuffix(response_format) == <<".", response_format>>

\* a slip that numbers the files from 0: enumerate(texts)
BatchOutputPathFromZero(output_dir, i, response_format) ==
    Path(output_dir, <<"tts_output_">> \o Pad3(i - 1), FormatSuffix(response_format))

\* os.path.join(output_dir, f"tts_output_{i:03d}.{response_format}")
BatchOutputPath(output_dir, i, response_format) ==
    Path(output_dir, <<"tts_output_">> \o Pad3(i), FormatSuffix(response_format))

\* output_paths.append(None)
None == [none |-> TRUE]

\* batch_synthesize is called on texts
SynthBatchCall(texts, output_dir, voice, response_format) ==
    [name |-> "batch_synthesize", pc |-> "running", texts |-> texts,
     output_dir |-> output_dir, voice |-> voice,
     response_format |-> response_format, output_paths |-> <<>>,
     services |-> <<>>]

\* one turn of the loop of batch_synthesize: the next text is synthesized and
\* its output path, or None, is appended
BatchSynthesizeItem(service) ==
    /\ op.name = "batch_synthesize"
    /\ op.pc = "running"
    /\ Len(op.output_paths) < Len(op.texts)
    /\ LET i == Len(op.output_paths) + 1
           output_path == BatchOutputPath(op.output_dir, i, op.response_format)
           error == synthesize_speech(op.texts[i], op.voice, op.response_format,
                                      service) IN
        /\ op' = [op EXCEPT
                    !.output_paths = Append(@, IF error = "none" THEN output_path
                                               ELSE None),
                    !.services = Append(@, service)]
        /\ disk' = IF error = "none" THEN WriteFile(disk, output_path, "audio")
                   ELSE disk
    /\ UNCHANGED <<collected_files, transcriptions>>
    /\ UNCHANGED <<askVars, synVars, srvVars, ttlVars, vreqs>>

\* the loop has gone through every text: return output_paths
BatchSynthesizeReturn ==
    /\ op.name = "batch_synthesize"
    /\ op.pc = "running"
    /\ Len(op.output_paths) = Len(op.texts)
    /\ op' = [op EXCEPT !.pc = "returned"]
    /\ UNCHANGED <<disk, collected_files, transcriptions>>
    /\ UNCHANGED <<askVars, synVars, srvVars, ttlVars, vreqs>>

-----------------------------------------------------------------------------
(* Collection of files: collector.py:37-73, pipeline.py:78-101 *)

\* any(domain in url for domain in [...]): a source is told to be a YouTube
\* URL by the host it names
is_youtube_url(source) ==
    source.dir \in {"youtube.com", "youtu.be", "youtube-nocookie.com"}

\* a slip that keeps the name without the case of its extension
DestPathLowerCase(output_dir, filepath) ==
    Path(output_dir, filepath.stem, Lower(filepath.suffix))

\* dest_dir / Path(filepath).name
DestPath(output_dir, filepath) == Path(output_dir, filepath.stem, filepath.suffix)

\* a slip that looks at the format before the file
CollectErrorFormatFirst(d, filepath) ==
    IF ~(is_audio(filepath) \/ is_video(filepath)) THEN "UnsupportedFormat"
    ELSE IF ~Exists(d, filepath) THEN "FileNotFound"
    ELSE "none"

\* the checks of collect_local_file, in the order of the code: the error
\* raised, or "none"
CollectError(d, filepath) ==
    IF ~Exists(d, filepath) THEN "FileNotFound"
    ELSE IF ~(is_audio(filepath) \/ is_video(filepath)) THEN "UnsupportedFormat"
    ELSE "none"

\* collect_local_file: the path of the copy, written by shutil.copy2, or the
\* exception
collect_local_file(d, filepath, output_dir) ==
    IF CollectError(d, filepath) # "none" THEN Failure(CollectError(d, filepath), d)
    ELSE LET dest_path == DestPath(output_dir, filepath) IN
         [ok |-> TRUE, result |-> dest_path,
          disk |-> WriteFile(d, dest_path, d[filepath])]

\* collect_from_youtube: the path the download is saved under, or the
\* exception of yt-dlp
collect_from_youtube(d, url, output_dir, downloaded) ==
    IF ~downloaded THEN Failure("DownloadError", d)
    ELSE LET output_file == Path(output_dir, url.stem, WavSuffix) IN
         [ok |-> TRUE, result |-> output_file,
          disk |-> WriteFile(d, output_file, "wav")]

\* no call of the library is under way
LibraryFree ==
    /\ op.pc # "running"
    /\ ~(op.name = "process_batch" /\ op.caller = "transcribe_all")

\* the record of a call that has finished
Finished(name, source, r, before) ==
    [name |-> name, pc |-> IF r.ok THEN "returned" ELSE "raised",
     source |-> source, error |-> IF r.ok THEN "none" ELSE r.error,
     result |-> IF r.ok THEN r.result ELSE None, before |-> before]

\* collect_local_file(filepath, "collected") is called on its own
CollectLocalFile(filepath) ==
    /\ LibraryFree
    /\ LET r == collect_local_file(disk, filepath, "collected") IN
        /\ op' = Finished("collect_local_file", filepath, r, disk)
        /\ disk' = r.disk
    /\ UNCHANGED <<collected_files, transcriptions>>
    /\ UNCHANGED <<askVars, synVars, srvVars, ttlVars, vreqs>>

\* SpeechPipeline.collect(source): a YouTube URL is downloaded, a file is
\* copied, anything else is refused; the collected path is remembered
Collect(source, downloaded) ==
    /\ LibraryFree
    /\ Len(collected_files) < MaxCollected
    /\ LET r == IF is_youtube_url(source)
                THEN collect_from_youtube(disk, source, "collected", downloaded)
                ELSE IF Exists(disk, source)
                THEN collect_local_file(disk, source, "collected")
                ELSE Failure("InvalidSource", disk) IN
        /\ op' = Finished("collect", source, r, disk)
        /\ disk' = r.disk
        /\ collected_files' = IF r.ok THEN Append(collected_files, r.result)
                              ELSE collected_files
    /\ UNCHANGED transcriptions
    /\ UNCHANGED <<askVars, synVars, srvVars, ttlVars, vreqs>>

-----------------------------------------------------------------------------
(* SpeechPipeline.transcribe_all: pipeline.py:139-166, processor.py:270-287 *)

\* os.path.join(self.transcription_dir, "transcriptions.json")
TranscriptionsJson == Path("transcriptions", <<"transcriptions">>, <<".", "json">>)

\* a slip that saves the accumulator of the pipeline in place of the results
\* of this call
SavedAccumulator(results, accumulated) == accumulated

\* save_transcriptions(results, output_path) writes results
Saved(results, accumulated) == results

\* the record of a call of transcribe_all that has returned
TranscribeAllReturned(results, before, transcriptions_before) ==
    [name |-> "transcribe_all", pc |-> "returned", results |-> results,
     before |-> before, transcriptions_before |-> transcriptions_before]

\* transcribe_all with no collected file: it returns [] at once
TranscribeAllNothing ==
    /\ LibraryFree
    /\ collected_files = <<>>
    /\ op' = TranscribeAllReturned(<<>>, disk, transcriptions)
    /\ UNCHANGED <<disk, collected_files, transcriptions>>
    /\ UNCHANGED <<askVars, synVars, srvVars, ttlVars, vreqs>>

\* transcribe_all with collected files: it calls process_batch on them
TranscribeAllBegin ==
    /\ LibraryFree
    /\ collected_files # <<>>
    /\ Len(transcriptions) + Len(collected_files) <= MaxTranscribed
    /\ op' = BatchCall(collected_files, "transcribe_all")
    /\ UNCHANGED <<disk, collected_files, transcriptions>>
    /\ UNCHANGED <<askVars, synVars, srvVars, ttlVars, vreqs>>

\* process_batch has returned: the results are added to the accumulator and
\* saved, and transcribe_all returns them
TranscribeAllSave ==
    /\ op.name = "process_batch"
    /\ op.pc = "returned"
    /\ op.caller = "transcribe_all"
    /\ transcriptions' = transcriptions \o op.results
    /\ disk' = WriteFile(disk, TranscriptionsJson,
                         Saved(op.results, transcriptions \o op.results))
    /\ op' = TranscribeAllReturned(op.results, disk, transcriptions)
    /\ UNCHANGED collected_files
    /\ UNCHANGED <<askVars, synVars, srvVars, ttlVars, vreqs>>

\* a few outcomes of the media libraries
SomeBackends == {Backend("error", <<>>), Backend("text", <<" ", "h", "i">>)}

-----------------------------------------------------------------------------
(* The waveform normalizer: processor.py:70-106 *)

\* a sample is the number n * 2^k; k is negative once an integer sample has
\* been scaled
Sample(n, k) == [n |-> n, k |-> k]

RECURSIVE Pow2(_)
Pow2(k) == IF k = 0 THEN 1 ELSE 2 * Pow2(k - 1)

\* the numerator of x over 2^-k0, for k0 at most x.k
Numerator(x, k0) == x.n * Pow2(x.k - k0)

\* x + y
Plus(x, y) ==
    IF x.n = 0 THEN y
    ELSE IF y.n = 0 THEN x
    ELSE LET k0 == IF x.k <= y.k THEN x.k ELSE y.k IN
         Sample(Numerator(x, k0) + Numerator(y, k0), k0)

\* x / 2^bits
DivPow2(x, bits) == Sample(x.n, x.k - bits)

\* data.astype(np.float32) / 32768.0 for int16, / 2147483648.0 for int32,
\* the cast alone for any other type that is not float32
ToFloat32(dtype, x) ==
    IF dtype = "int16" THEN DivPow2(x, Int16ScaleBits)
    ELSE IF dtype = "int32" THEN DivPow2(x, Int32ScaleBits)
    ELSE x

\* data.mean(axis=1) of one frame of two channels
Mean(frame) == DivPow2(Plus(frame[1], frame[2]), 1)

\* a slip that resamples only what is above the target rate
NeedsResampleDownOnly(sr) == sr > TargetRate

\* if sr != 16000
NeedsResample(sr) == sr # TargetRate

\* int(len(data) * 16000 / sr)
NumSamples(len, sr) == (len * TargetRate) \div sr

\* a waveform as wavfile.read gives it: the rate and the array, of one
\* dimension for one channel and of two for more; data[i] holds the samples
\* of frame i, one for each channel
Wav(sr, dtype, ndim, data) == [sr |-> sr, dtype |-> dtype, ndim |-> ndim, data |-> data]

\* _load_audio_as_numpy: the array handed to whisper, with the rate its
\* samples are at; the values that scipy.signal.resample computes are not
\* modelled
load_audio_as_numpy(wav) ==
    LET floats == [i \in 1..Len(wav.data) |->
                      [c \in 1..Len(wav.data[i]) |->
                          ToFloat32(wav.dtype, wav.data[i][c])]]
        mono == [i \in 1..Len(floats) |->
                    IF wav.ndim > 1 THEN Mean(floats[i]) ELSE floats[i][1]] IN
    IF NeedsResample(wav.sr)
    THEN [sr |-> TargetRate, dtype |-> "float32", ndim |-> 1, resampled |-> TRUE,
          data |-> [i \in 1..NumSamples(Len(mono), wav.sr) |-> "resampled"]]
    ELSE [sr |-> wav.sr, dtype |-> "float32", ndim |-> 1, resampled |-> FALSE,
          data |-> mono]

\* the call runs and returns the array
LoadAudioAsNumpy ==
    /\ op.name = "load_audio_as_numpy"
    /\ op.pc = "called"
    /\ op' = [name |-> "load_audio_as_numpy", pc |-> "returned", wav |-> op.wav,
              audio |-> load_audio_as_numpy(op.wav)]
    /\ UNCHANGED <<disk, collected_files, transcriptions>>
    /\ UNCHANGED <<askVars, synVars, srvVars, ttlVars, vreqs>>

(* Inputs of the normalizer *)

\* sample values of each type: the least, zero or about it, and a large one
SamplesOf(dtype) ==
    IF dtype = "int16" THEN {Sample(-1, 15), Sample(0, 0), Sample(32767, 0)}
    ELSE IF dtype = "int32" THEN {Sample(-1, 31), Sample(0, 0), Sample(1, 30)}
    ELSE IF dtype = "uint8" THEN {Sample(0, 0), Sample(255, 0)}
    ELSE {Sample(-1, 0), Sample(1, -1)}

\* every waveform of at most MaxFrames frames, of one or two channels
WavInputs ==
    UNION {
        {Wav(sr, dtype, 1, data) : data \in [1..n -> [1..1 -> SamplesOf(dtype)]]}
        \cup {Wav(sr, dtype, 2, data) : data \in [1..n -> [1..2 -> SamplesOf(dtype)]]} :
        sr \in {8000, TargetRate, 44100},
        dtype \in {"int16", "int32", "float32", "float64", "uint8"},
        n \in 1..MaxFrames}

-----------------------------------------------------------------------------
(* The audio-serving operation and the TTL sweep: server.py:33-43, 169-175 *)

\* a slip that clears the directory on every sweep
ExpiredAlways(t, modified) == TRUE

\* (now - f.stat().st_mtime) > AUDIO_TTL
Expired(t, modified) == (t - modified) > AUDIO_TTL

\* _cleanup_old_files: the files that the sweep leaves in the directory
cleanup_old_files(dir, times, t) == {f \in dir : ~Expired(t, times[f])}

\* the clock moves on by d seconds
Tick(d) ==
    /\ now + d <= AUDIO_TTL + MaxSlack
    /\ d = 1 => now % AUDIO_TTL < MaxSlack
    /\ now' = now + d
    /\ UNCHANGED mtime
    /\ UNCHANGED <<askVars, synVars, srvVars, pipeVars, vreqs>>

\* GET /api/audio/{filename}: 404 when the file does not exist; else the
\* sweep runs and the response is built on what it has left
GetAudio(filename) ==
    /\ HandlerMayRun(0)
    /\ IF filename \notin audio_dir
       THEN /\ op' = [name |-> "get_audio", pc |-> "raised", filename |-> filename,
                      found |-> FALSE, swept |-> FALSE, at |-> now,
                      dir_before |-> audio_dir, mtime_before |-> mtime,
                      dir_after |-> audio_dir]
            /\ UNCHANGED <<audio_dir, mtime>>
       ELSE /\ audio_dir' = cleanup_old_files(audio_dir, mtime, now)
            /\ mtime' = [f \in audio_dir' |-> mtime[f]]
            /\ op' = [name |-> "get_audio", pc |-> "returned", filename |-> filename,
                      found |-> TRUE, swept |-> TRUE, at |-> now,
                      dir_before |-> audio_dir, mtime_before |-> mtime,
                      dir_after |-> audio_dir']
    /\ UNCHANGED <<reqs, loop, now>>
    /\ UNCHANGED <<disk, collected_files, transcriptions, vreqs>>
    /\ UNCHANGED <<askVars, synVars>>

-----------------------------------------------------------------------------
(* SpeechPipeline.speak and speak_transcriptions: pipeline.py:168-227 *)

\* a file name: the stem and the suffix
FileName(stem, suffix) == [stem |-> stem, suffix |-> suffix]

\* os.listdir(self.tts_dir)
TtsFiles(d) == {p \in DOMAIN d : p.dir = "tts_output"}

\* len([f for f in os.listdir(self.tts_dir) if f.endswith(f".{response_format}")])
Existing(d, response_format) ==
    Cardinality({p \in TtsFiles(d) : p.suffix = FormatSuffix(response_format)})

\* f"speech_{existing + 1:03d}.{response_format}"
AutoName(d, response_format) ==
    FileName(<<"speech_">> \o Pad3(Existing(d, response_format) + 1),
             FormatSuffix(response_format))

\* speak(text, voice, filename, response_format): the name is generated when
\* none is given, and the audio is synthesized into the tts_output directory
Speak(text, voice, filename, response_format, service) ==
    /\ LibraryFree
    /\ Cardinality(TtsFiles(disk)) < MaxTtsFiles
    /\ LET name == IF filename = None THEN AutoName(disk, response_format)
                   ELSE filename
           output_path == Path("tts_output", name.stem, name.suffix)
           error == synthesize_speech(text, voice, response_format, service) IN
        /\ op' = [name |-> "speak", pc |-> IF error = "none" THEN "returned"
                                           ELSE "raised",
                  filename |-> filename, output_path |-> output_path,
                  existed |-> output_path \in DOMAIN disk, error |-> error]
        /\ disk' = IF error = "none" THEN WriteFile(disk, output_path, "audio")
                   ELSE disk
    /\ UNCHANGED <<collected_files, transcriptions>>
    /\ UNCHANGED <<askVars, synVars, srvVars, ttlVars, vreqs>>

RECURSIVE TextsOf(_)
\* [t["text"] for t in self.transcriptions if "text" in t and t["text"]]
TextsOf(results) ==
    IF results = <<>> THEN <<>>
    ELSE LET t == Head(results) IN
         (IF "text" \in DOMAIN t /\ t.text # EmptyStr THEN <<t.text>> ELSE <<>>)
         \o TextsOf(Tail(results))

\* speak_transcriptions: batch_synthesize is called on the texts of the
\* transcriptions, or [] is returned when there is none
SpeakTranscriptions(voice, response_format) ==
    /\ LibraryFree
    /\ Cardinality(TtsFiles(disk)) < MaxTtsFiles
    /\ op' = IF TextsOf(transcriptions) = <<>>
             THEN [name |-> "speak_transcriptions", pc |-> "returned"]
             ELSE SynthBatchCall(TextsOf(transcriptions), "tts_output", voice,
                                 response_format)
    /\ UNCHANGED <<disk, collected_files, transcriptions>>
    /\ UNCHANGED <<askVars, synVars, srvVars, ttlVars, vreqs>>

\* a file of the tts_output directory is deleted from outside
DeleteFile(path) ==
    /\ path \in TtsFiles(disk)
    /\ disk' = [p \in DOMAIN disk \ {path} |-> disk[p]]
    /\ UNCHANGED <<op, collected_files, transcriptions>>
    /\ UNCHANGED <<askVars, synVars, srvVars, ttlVars, vreqs>>

\* the names that speak is given
ExplicitNames ==
    {FileName(<<"hello">>, FormatSuffix("mp3")),
     FileName(<<"speech_">> \o Pad3(2), FormatSuffix("mp3"))}

\* what a pipeline may have transcribed before it speaks
SomeTranscriptions ==
    {<<>>,
     <<Transcript(Path("collected", <<"a">>, WavSuffix), <<"h", "i">>),
       ErrorRecord(Path("collected", <<"b">>, Mp3Suffix), "BackendError"),
       Transcript(Path("collected", <<"c">>, WavSuffix), <<>>)>>}

-----------------------------------------------------------------------------
(* The handlers that take an upload: server.py:82-137, 178-182 *)

VoiceReqs == 1..MaxUploads

\* uuid.uuid4().hex[:12]: every request has an id of its own
FileId(v) == <<"id", Digit[v + 1]>>

WebmSuffix == <<".", "w", "e", "b", "m">>

\* Path(audio.filename or "audio.webm").suffix or ".webm"
ExtOf(suffix) == IF suffix = <<>> THEN WebmSuffix ELSE suffix

\* AUDIO_DIR / f"{file_id}{ext}"
InputPath(v, ext) == Path("tmp_audio", FileId(v), ext)

\* AUDIO_DIR / f"{file_id}_response.mp3"
TtsPath(v) == Path("tmp_audio", FileId(v) \o <<"_response">>, Mp3Suffix)

\* input_path.with_name(f"{file_id}_converted.wav")
ConvertedName(v) == Path("tmp_audio", FileId(v) \o <<"_converted">>, WavSuffix)

\* a slip that removes the upload and forgets the converted file
FinallyInputOnly(dir, v, ext) == dir \ {InputPath(v, ext)}

\* finally: _remove(input_path); _remove(<file_id>_converted.wav)
Finally(dir, v, ext) == dir \ {InputPath(v, ext), ConvertedName(v)}

NoUpload ==
    [pc |-> "new", kind |-> "none", ext |-> <<>>, voice |-> <<>>,
     user_text |-> EmptyStr, reply |-> EmptyStr, error |-> "none",
     stage |-> "none", converted |-> FALSE]

\* a POST /api/transcribe or /api/chat arrives: the handler computes its
\* paths and awaits the body of the upload
Upload(v, kind, suffix, voice) ==
    /\ vreqs[v].pc = "new"
    /\ vreqs' = [vreqs EXCEPT ![v] = [NoUpload EXCEPT !.pc = "reading",
                                         !.kind = kind, !.ext = ExtOf(suffix),
                                         !.voice = voice]]
    /\ UNCHANGED <<srvVars, pipeVars, ttlVars>>
    /\ UNCHANGED <<askVars, synVars>>

\* the body has been read: the handler goes on, and from here to its end
\* nothing awaits; it writes the upload to input_path
VoiceWrite(v) ==
    /\ vreqs[v].pc = "reading"
    /\ HandlerMayRun(v)
    /\ loop' = v
    /\ audio_dir' = audio_dir \cup {InputPath(v, vreqs[v].ext)}
    /\ mtime' = Stamp(mtime, audio_dir', now)
    /\ vreqs' = [vreqs EXCEPT ![v].pc = "written"]
    /\ UNCHANGED <<reqs, now, pipeVars>>
    /\ UNCHANGED <<askVars, synVars>>

\* transcribe_audio(input_path): _ensure_wav may leave the converted file
\* next to the upload, whether the transcription then succeeds or not;
\* /api/transcribe ends here, /api/chat ends here when it fails
VoiceTranscribe(v, backend, converted) ==
    /\ vreqs[v].pc = "written"
    /\ LET input_path == InputPath(v, vreqs[v].ext)
           wav_path == ensure_wav(input_path)
           with_wav == IF converted THEN audio_dir \cup {wav_path} ELSE audio_dir IN
        /\ converted => (wav_path # input_path /\ backend.kind # "unavailable")
        /\ IF backend.kind # "text"
           THEN /\ vreqs' = [vreqs EXCEPT ![v].pc = "failed",
                                ![v].error = IF backend.kind = "unavailable"
                                             THEN "ImportError" ELSE "BackendError",
                                ![v].stage = "stt", ![v].converted = converted]
                /\ audio_dir' = Finally(with_wav, v, vreqs[v].ext)
                /\ loop' = 0
           ELSE IF vreqs[v].kind = "transcribe"
           THEN /\ vreqs' = [vreqs EXCEPT ![v].pc = "done",
                                ![v].user_text = Strip(backend.text),
                                ![v].converted = converted]
                /\ audio_dir' = Finally(with_wav, v, vreqs[v].ext)
                /\ loop' = 0
           ELSE /\ vreqs' = [vreqs EXCEPT ![v].pc = "transcribed",
                                ![v].user_text = Strip(backend.text),
                                ![v].converted = converted]
                /\ audio_dir' = with_wav
                /\ UNCHANGED loop
    /\ mtime' = Stamp(mtime, audio_dir', now)
    /\ UNCHANGED <<reqs, now, pipeVars>>
    /\ UNCHANGED <<askVars, synVars>>

\* chat_voice calls _ask_llm on the transcript: ask appends the user turn,
\* truncates and sends the request
VoiceAskBegin(v) ==
    /\ vreqs[v].pc = "transcribed"
    /\ chat_history' = AppendUser(chat_history, vreqs[v].user_text)
    /\ appended' = Append(appended, UserTurn(vreqs[v].user_text))
    /\ vreqs' = [vreqs EXCEPT ![v].pc = "asking"]
    /\ UNCHANGED <<provider, call, nAsks, resp>>
    /\ UNCHANGED <<synVars, srvVars, pipeVars, ttlVars>>

\* the service answers: ask appends the assistant turn and returns, or
\* raises and chat_voice answers with HTTP 500 after its finally
VoiceAskEnd(v, answer) ==
    /\ vreqs[v].pc = "asking"
    /\ answer.kind \in (IF provider = "groq" THEN {"error", "content"}
                        ELSE {"error", "stream"})
    /\ LET res == AskResult(provider, answer) IN
        IF res.ok
        THEN /\ chat_history' = AppendAssistant(chat_history, res.reply)
             /\ appended' = Append(appended, AssistantTurn(res.reply))
             /\ vreqs' = [vreqs EXCEPT ![v].pc = "asked", ![v].reply = res.reply]
             /\ UNCHANGED <<loop, audio_dir, mtime>>
        ELSE /\ vreqs' = [vreqs EXCEPT ![v].pc = "failed", ![v].error = res.error,
                                       ![v].stage = "ask"]
             /\ audio_dir' = Finally(audio_dir, v, vreqs[v].ext)
             /\ mtime' = Stamp(mtime, audio_dir', now)
             /\ loop' = 0
             /\ UNCHANGED <<chat_history, appended>>
    /\ UNCHANGED <<provider, call, nAsks, resp>>
    /\ UNCHANGED <<reqs, now, pipeVars, synVars>>

\* chat_voice calls synthesize_speech on the reply and returns the
\* audio_url, or answers with HTTP 500; the finally runs either way
VoiceSynthesize(v, service) ==
    /\ vreqs[v].pc = "asked"
    /\ LET error == synthesize_speech(vreqs[v].reply, vreqs[v].voice, "mp3",
                                      service) IN
        IF error = "none"
        THEN /\ vreqs' = [vreqs EXCEPT ![v].pc = "done"]
             /\ audio_dir' = Finally(audio_dir \cup {TtsPath(v)}, v, vreqs[v].ext)
        ELSE /\ vreqs' = [vreqs EXCEPT ![v].pc = "failed", ![v].error = error,
                                       ![v].stage = "tts"]
             /\ audio_dir' = Finally(audio_dir, v, vreqs[v].ext)
    /\ mtime' = Stamp(mtime, audio_dir', now)
    /\ loop' = 0
    /\ UNCHANGED <<reqs, now, pipeVars>>
    /\ UNCHANGED <<askVars, synVars>>

-----------------------------------------------------------------------------
(* Specifications *)

\* the other specifications leave the library, the clock and the uploads alone
LibraryIdle ==
    /\ op = NoOp
    /\ disk = <<>>
    /\ collected_files = <<>>
    /\ transcriptions = <<>>
    /\ now = 0
    /\ mtime = <<>>
    /\ vreqs = <<>>

\* a caller that makes one ask call after another on one history, which
\* earlier calls have filled with n turns
InitAsk ==
    /\ provider \in {"groq", "monei"}
    /\ \E n \in 0..HistoryCap : chat_history = OldHistory(n)
    /\ appended = chat_history
    /\ call = NoCall
    /\ nAsks = 0
    /\ resp = <<>>
    /\ syn = NoSynth
    /\ out_file = "absent"
    /\ reqs = NoRequests
    /\ loop = 0
    /\ audio_dir = {}
    /\ LibraryIdle

NextAsk ==
    \/ \E user_text \in UserTexts : AskBegin(user_text)
    \/ \E content \in GroqContents : GroqComplete(content)
    \/ GroqError
    \/ MoneiHttpError
    \/ \E lines \in AskStreams : MoneiStream(lines)

SpecAsk == InitAsk /\ [][NextAsk]_vars

\* one streaming ask on an empty history, answered by any event stream of at
\* most MaxLines lines
InitSSE ==
    /\ provider = "monei"
    /\ chat_history = <<>>
    /\ appended = <<>>
    /\ call = NoCall
    /\ nAsks = 0
    /\ resp = <<>>
    /\ syn = NoSynth
    /\ out_file = "absent"
    /\ reqs = NoRequests
    /\ loop = 0
    /\ audio_dir = {}
    /\ LibraryIdle

NextSSE ==
    \/ nAsks = 0 /\ AskBegin(<<"h", "i">>)
    \/ \E line \in Lines : StreamLine(line)
    \/ MoneiStream(resp)

SpecSSE == InitSSE /\ [][NextSSE]_vars

\* one call of synthesize_speech: any voice argument with a short text, or
\* any text length, format and key with a few voices
InitSynth ==
    /\ provider = "monei"
    /\ chat_history = <<>>
    /\ appended = <<>>
    /\ call = NoCall
    /\ nAsks = 0
    /\ resp = <<>>
    /\ reqs = NoRequests
    /\ loop = 0
    /\ audio_dir = {}
    /\ LibraryIdle
    /\ out_file \in {"absent", "old"}
    /\ \/ \E voice \in VoiceInputs :
            syn = SynthCall(TextOfLen(1), voice, "mp3", TRUE, out_file)
       \/ \E n \in TextLens, voice \in SomeVoices, f \in FormatInputs,
             has_key \in BOOLEAN :
            syn = SynthCall(TextOfLen(n), voice, f, has_key, out_file)

NextSynth ==
    \/ SynthesizeRejected
    \/ \E status_code \in {HttpOk, 401, 500} : SynthesizeAnswered(status_code)
    \/ SynthesizeNoResponse

SpecSynth == InitSynth /\ [][NextSynth]_vars

\* the server after start-up: an empty history, no request yet
InitServer ==
    /\ provider \in {"groq", "monei"}
    /\ chat_history = <<>>
    /\ appended = <<>>
    /\ call = NoCall
    /\ nAsks = 0
    /\ resp = <<>>
    /\ syn = NoSynth
    /\ out_file = "absent"
    /\ reqs = NoRequests
    /\ loop = 0
    /\ audio_dir = {}
    /\ LibraryIdle

NextServer ==
    \/ \E r \in Reqs, voice \in SomeVoices : Receive(r, voice)
    \/ \E r \in Reqs : ChatAskBegin(r)
    \/ \E r \in Reqs, answer \in Answers : ChatAskEnd(r, answer)
    \/ \E r \in Reqs, has_key \in BOOLEAN, responded \in BOOLEAN,
          status_code \in {HttpOk, 500} :
          ChatSynthesize(r, has_key, responded, status_code)

SpecServer == InitServer /\ [][NextServer]_vars

\* one call of process_batch on any list of at most MaxFiles paths, of files
\* that exist or not, in formats that are supported or not
InitBatch ==
    /\ provider = "monei"
    /\ chat_history = <<>>
    /\ appended = <<>>
    /\ call = NoCall
    /\ nAsks = 0
    /\ resp = <<>>
    /\ syn = NoSynth
    /\ out_file = "absent"
    /\ reqs = NoRequests
    /\ loop = 0
    /\ audio_dir = {}
    /\ \E filepaths \in ListsOf(SourceFiles \cup MissingFiles, MaxFiles) :
            op = BatchCall(filepaths, "none")
    /\ disk = SourceDisk
    /\ collected_files = <<>>
    /\ transcriptions = <<>>
    /\ now = 0
    /\ mtime = <<>>
    /\ vreqs = <<>>

NextBatch ==
    \/ \E backend \in Backends : ProcessBatchItem(backend)
    \/ ProcessBatchReturn

SpecBatch == InitBatch /\ [][NextBatch]_vars

\* one call of batch_synthesize on any list of at most MaxTexts texts, with a
\* voice and a format that are valid or not
InitSynthBatch ==
    /\ provider = "monei"
    /\ chat_history = <<>>
    /\ appended = <<>>
    /\ call = NoCall
    /\ nAsks = 0
    /\ resp = <<>>
    /\ syn = NoSynth
    /\ out_file = "absent"
    /\ reqs = NoRequests
    /\ loop = 0
    /\ audio_dir = {}
    /\ \E texts \in ListsOf({TextOfLen(1), TextOfLen(MaxTextLen + 1)}, MaxTexts),
          voice \in {<<"I", "d", "e", "r", "a">>, <<"B", "o", "b">>},
          response_format \in {"mp3", "ogg"} :
            op = SynthBatchCall(texts, "tts_output", voice, response_format)
    /\ disk = <<>>
    /\ collected_files = <<>>
    /\ transcriptions = <<>>
    /\ now = 0
    /\ mtime = <<>>
    /\ vreqs = <<>>

NextSynthBatch ==
    \/ \E service \in Services : BatchSynthesizeItem(service)
    \/ BatchSynthesizeReturn

SpecSynthBatch == InitSynthBatch /\ [][NextSynthBatch]_vars

\* a pipeline after construction: nothing collected, nothing transcribed; the
\* output directory may hold the transcriptions.json of an earlier run
InitPipeline ==
    /\ provider = "monei"
    /\ chat_history = <<>>
    /\ appended = <<>>
    /\ call = NoCall
    /\ nAsks = 0
    /\ resp = <<>>
    /\ syn = NoSynth
    /\ out_file = "absent"
    /\ reqs = NoRequests
    /\ loop = 0
    /\ audio_dir = {}
    /\ op = NoOp
    /\ disk \in {SourceDisk,
                 WriteFile(SourceDisk, TranscriptionsJson,
                           <<ErrorRecord(Path("old", <<"a">>, WavSuffix),
                                         "BackendError")>>)}
    /\ collected_files = <<>>
    /\ transcriptions = <<>>
    /\ now = 0
    /\ mtime = <<>>
    /\ vreqs = <<>>

NextPipeline ==
    \/ \E filepath \in SourceFiles \cup MissingFiles : CollectLocalFile(filepath)
    \/ \E source \in SourceFiles \cup MissingFiles
                        \cup {Path("youtu.be", <<"title">>, <<>>)},
          downloaded \in BOOLEAN : Collect(source, downloaded)
    \/ TranscribeAllNothing
    \/ TranscribeAllBegin
    \/ \E backend \in SomeBackends : ProcessBatchItem(backend)
    \/ ProcessBatchReturn
    \/ TranscribeAllSave

SpecPipeline == InitPipeline /\ [][NextPipeline]_vars

\* one call of _load_audio_as_numpy on any waveform of at most MaxFrames
\* frames
InitNormalize ==
    /\ provider = "monei"
    /\ chat_history = <<>>
    /\ appended = <<>>
    /\ call = NoCall
    /\ nAsks = 0
    /\ resp = <<>>
    /\ syn = NoSynth
    /\ out_file = "absent"
    /\ reqs = NoRequests
    /\ loop = 0
    /\ audio_dir = {}
    /\ \E wav \in WavInputs :
            op = [name |-> "load_audio_as_numpy", pc |-> "called", wav |-> wav]
    /\ disk = <<>>
    /\ collected_files = <<>>
    /\ transcriptions = <<>>
    /\ now = 0
    /\ mtime = <<>>
    /\ vreqs = <<>>

NextNormalize == LoadAudioAsNumpy

SpecNormalize == InitNormalize /\ [][NextNormalize]_vars

\* the server after start-up with an empty audio directory: chat requests
\* leave response files in it, time passes and the files are asked for
InitAudio ==
    /\ provider = "groq"
    /\ chat_history = <<>>
    /\ appended = <<>>
    /\ call = NoCall
    /\ nAsks = 0
    /\ resp = <<>>
    /\ syn = NoSynth
    /\ out_file = "absent"
    /\ reqs = NoRequests
    /\ loop = 0
    /\ audio_dir = {}
    /\ LibraryIdle

NextAudio ==
    \/ \E r \in Reqs : Receive(r, <<"I", "d", "e", "r", "a">>)
    \/ \E r \in Reqs : ChatAskBegin(r)
    \/ \E r \in Reqs :
          ChatAskEnd(r, Answer("content", Content(<<"o", "k">>), <<>>))
    \/ \E r \in Reqs, status_code \in {HttpOk, 500} :
          ChatSynthesize(r, TRUE, TRUE, status_code)
    \/ \E d \in {1, AUDIO_TTL} : Tick(d)
    \/ \E r \in Reqs : GetAudio(ResponseFile(r))

SpecAudio == InitAudio /\ [][NextAudio]_vars

\* a pipeline with an empty tts_output directory, which has transcribed
\* something or nothing, and whose user speaks, synthesizes the
\* transcriptions and deletes files
InitSpeak ==
    /\ provider = "monei"
    /\ chat_history = <<>>
    /\ appended = <<>>
    /\ call = NoCall
    /\ nAsks = 0
    /\ resp = <<>>
    /\ syn = NoSynth
    /\ out_file = "absent"
    /\ reqs = NoRequests
    /\ loop = 0
    /\ audio_dir = {}
    /\ op = NoOp
    /\ disk = <<>>
    /\ collected_files = <<>>
    /\ transcriptions \in SomeTranscriptions
    /\ now = 0
    /\ mtime = <<>>
    /\ vreqs = <<>>

NextSpeak ==
    \/ \E filename \in ExplicitNames \cup {None}, response_format \in {"mp3", "wav"},
          service \in {Service(TRUE, TRUE, HttpOk), Service(TRUE, TRUE, 500)} :
          Speak(TextOfLen(1), <<"I", "d", "e", "r", "a">>, filename,
                response_format, service)
    \/ \E response_format \in {"mp3", "wav"} :
          SpeakTranscriptions(<<"I", "d", "e", "r", "a">>, response_format)
    \/ \E service \in {Service(TRUE, TRUE, HttpOk), Service(TRUE, TRUE, 500)} :
          BatchSynthesizeItem(service)
    \/ BatchSynthesizeReturn
    \/ \E path \in DOMAIN disk : DeleteFile(path)

SpecSpeak == InitSpeak /\ [][NextSpeak]_vars

\* the server after start-up, to which audio is uploaded for transcription
\* and for voice chat
InitVoice ==
    /\ provider = "groq"
    /\ chat_history = <<>>
    /\ appended = <<>>
    /\ call = NoCall
    /\ nAsks = 0
    /\ resp = <<>>
    /\ syn = NoSynth
    /\ out_file = "absent"
    /\ reqs = NoRequests
    /\ loop = 0
    /\ audio_dir = {}
    /\ op = NoOp
    /\ disk = <<>>
    /\ collected_files = <<>>
    /\ transcriptions = <<>>
    /\ now = 0
    /\ mtime = <<>>
    /\ vreqs = [v \in VoiceReqs |-> NoUpload]

NextVoice ==
    \/ \E v \in VoiceReqs, kind \in {"transcribe", "chat_voice"},
          suffix \in {<<>>, WavSuffix} :
          Upload(v, kind, suffix, <<"I", "d", "e", "r", "a">>)
    \/ \E v \in VoiceReqs : VoiceWrite(v)
    \/ \E v \in VoiceReqs, backend \in SomeBackends, converted \in BOOLEAN :
          VoiceTranscribe(v, backend, converted)
    \/ \E v \in VoiceReqs : VoiceAskBegin(v)
    \/ \E v \in VoiceReqs :
          VoiceAskEnd(v, Answer("content", Content(<<"o", "k">>), <<>>))
    \/ \E v \in VoiceReqs : VoiceAskEnd(v, Answer("error", NoContent, <<>>))
    \/ \E v \in VoiceReqs,
          service \in {Service(TRUE, TRUE, HttpOk), Service(TRUE, TRUE, 500)} :
          VoiceSynthesize(v, service)

SpecVoice == InitVoice /\ [][NextVoice]_vars

-----------------------------------------------------------------------------
(* Properties of ask *)

Returned == call.pc = "returned"
Raised == call.pc = "raised"

\* s is the last Len(s) entries of t, in t's order
IsSuffix(s, t) ==
    /\ Len(s) <= Len(t)
    /\ \A i \in 1..Len(s) : s[i] = t[Len(t) - Len(s) + i]

\* C1: at the moment an ask call returns, the history holds at most 20
\* entries (the cap is enforced after every turn).
C1_HistoryAtMostCap == Returned => Len(chat_history) <= HistoryCap

\* C2: the history is at every point a contiguous suffix, in the original
\* order, of the sequence of all turns ever appended to it: eviction drops
\* the oldest entries first and reorders nothing.
C2_FifoSuffix == IsSuffix(chat_history, appended)

\* an ask has returned after its truncation evicted the oldest entry
C2_Evicted ==
    /\ Returned
    /\ Len(call.before) = HistoryCap
    /\ Len(appended) > Len(chat_history)
    /\ chat_history[1] = call.before[2]

\* C7: when ask returns successfully, the last entry of the history is the
\* assistant turn holding the returned reply and the entry before it is the
\* user turn holding the user_text of the call.
C7_ReplyAppendedBeforeReturn ==
    Returned =>
        /\ Len(chat_history) >= 2
        /\ chat_history[Len(chat_history)] =
               [role |-> "assistant", content |-> call.reply]
        /\ chat_history[Len(chat_history) - 1] =
               [role |-> "user", content |-> call.user_text]

\* an ask with a non-empty reply has returned on a history that was full
C7_ReturnedOnFullHistory ==
    /\ Returned
    /\ call.reply # EmptyStr
    /\ Len(call.before) = HistoryCap

\* the last entry of the history h is a user turn
EndsWithUserTurn(h) == h # <<>> /\ h[Len(h)].role = "user"

\* C17: a failed ask does not roll back the history: when the remote call
\* fails or the stream yields EmptyResponse, the history is the one the call
\* found with the user turn appended (and truncated to the cap) and no
\* assistant turn; so when the next ask returns, the history ends with two
\* consecutive user turns followed by the reply.
C17_FailedAskKeepsUserTurn ==
    /\ Raised =>
        /\ EndsWithUserTurn(chat_history)
        /\ chat_history[Len(chat_history)] = UserTurn(call.user_text)
        /\ IsSuffix(chat_history, Append(call.before, UserTurn(call.user_text)))
        /\ Len(chat_history) =
                IF Len(call.before) < HistoryCap THEN Len(call.before) + 1
                ELSE HistoryCap
        /\ appended[Len(appended)] = UserTurn(call.user_text)
    /\ (Returned /\ EndsWithUserTurn(call.before)) =>
        LET n == Len(chat_history) IN
        /\ n >= 3
        /\ chat_history[n - 2] = call.before[Len(call.before)]
        /\ chat_history[n - 2].role = "user"
        /\ chat_history[n - 1] = UserTurn(call.user_text)
        /\ chat_history[n].role = "assistant"

\* an ask has returned on a history whose last turn is the user turn that a
\* failed ask of this behaviour has left
C17_ReturnedAfterFailedAsk ==
    /\ Returned
    /\ nAsks >= 2
    /\ EndsWithUserTurn(call.before)
    /\ call.before[Len(call.before)].content \in UserTexts

-----------------------------------------------------------------------------
(* Properties of the SSE decoder *)

\* the streaming ask has decoded its stream (and returned or raised)
Decoded == provider = "monei" /\ (Returned \/ (Raised /\ call.error = "EmptyResponse"))

HasComplete(lines) == \E i \in 1..Len(lines) : lines[i].kind = "complete"

\* the place of the first completion event
FirstComplete(lines) ==
    CHOOSE i \in 1..Len(lines) :
        /\ lines[i].kind = "complete"
        /\ \A j \in 1..(i - 1) : lines[j].kind # "complete"

OnlySpaces(s) == \A i \in 1..Len(s) : IsSpace(s[i])

\* t is s without its leading and trailing whitespace
IsStripOf(t, s) ==
    /\ IsStripped(t)
    /\ \E a \in 0..Len(s) :
        /\ a + Len(t) <= Len(s)
        /\ SubSeq(s, a + 1, a + Len(t)) = t
        /\ \A i \in (1..a) \cup ((a + Len(t) + 1)..Len(s)) : IsSpace(s[i])

\* C4, as stated: for a stream with a completion event the reply is exactly
\* the payload of the first completion event, and nothing after it is read.
C4_ReplyIsExactPayload ==
    (Decoded /\ HasComplete(call.lines)) =>
        /\ Returned
        /\ call.reply = call.lines[FirstComplete(call.lines)].data
        /\ call.read = FirstComplete(call.lines)

\* C4, amended: for a stream with a completion event, reading stops at the
\* first completion event and the reply is its payload with the leading and
\* trailing whitespace stripped, whatever tokens came before; when that
\* payload is empty or all whitespace the ask raises EmptyResponse.
C4_ReplyIsStrippedPayload ==
    (Decoded /\ HasComplete(call.lines)) =>
        LET k == FirstComplete(call.lines)
            data == call.lines[k].data
        IN  /\ call.read = k
            /\ OnlySpaces(data) => (Raised /\ call.error = "EmptyResponse")
            /\ ~OnlySpaces(data) => (Returned /\ IsStripOf(call.reply, data))

\* a reply came from a completion event that follows a non-empty token and
\* is followed by a further event
C4_CompleteAfterTokens ==
    /\ Decoded /\ Returned
    /\ HasComplete(call.lines)
    /\ FirstComplete(call.lines) = 2
    /\ call.lines[1].kind = "token" /\ call.lines[1].data # EmptyStr
    /\ Len(call.lines) > 2

\* every event of the stream is a token event
OnlyTokenEvents(lines) ==
    \A i \in 1..Len(lines) : IsDataLine(lines[i]) => lines[i].kind = "token"

RECURSIVE TokenConcat(_)
\* the token payloads of the stream, concatenated in stream order
TokenConcat(lines) ==
    IF lines = <<>> THEN EmptyStr
    ELSE (IF Head(lines).kind = "token" THEN Head(lines).data ELSE EmptyStr)
         \o TokenConcat(Tail(lines))

\* C5: for a stream of token events only, the reply equals the concatenation
\* of all token payloads in stream order (an empty concatenation is the
\* EmptyResponse error of C6, not a reply).
C5_ReplyIsTokenConcat ==
    (Decoded /\ OnlyTokenEvents(call.lines)) =>
        /\ Returned <=> TokenConcat(call.lines) # EmptyStr
        /\ Returned => call.reply = TokenConcat(call.lines)

\* a reply was put together from at least two non-empty tokens
C5_SeveralTokens ==
    /\ Decoded /\ Returned
    /\ OnlyTokenEvents(call.lines)
    /\ Cardinality({i \in 1..Len(call.lines) :
           call.lines[i].kind = "token" /\ call.lines[i].data # EmptyStr}) >= 2

\* the stream holds no text: only blank and non-data lines and events
\* without content
NoText(lines) ==
    \A i \in 1..Len(lines) : IsDataLine(lines[i]) => lines[i].data = EmptyStr

\* C6: when the stream ends without any text the streaming ask raises
\* EmptyResponse and appends no assistant turn; it never returns an empty
\* string.
C6_EmptyStreamRaises ==
    /\ (Decoded /\ NoText(call.lines)) =>
           /\ Raised /\ call.error = "EmptyResponse"
           /\ chat_history =
                  Append(call.before, [role |-> "user", content |-> call.user_text])
    /\ (Decoded /\ Returned) => call.reply # EmptyStr
    /\ (Decoded /\ Raised) =>
           chat_history[Len(chat_history)].role = "user"

\* a stream of several lines, one of them an event without content, ended
\* in EmptyResponse
C6_RaisedOnEventsWithoutContent ==
    /\ Decoded /\ Raised
    /\ NoText(call.lines)
    /\ Len(call.lines) >= 2
    /\ \E i \in 1..Len(call.lines) : IsDataLine(call.lines[i])

-----------------------------------------------------------------------------
(* Properties of synthesize_speech *)

SynDone == syn.pc \in {"returned", "raised"}

\* v and name are the same letters up to case
IsCasingOf(v, name) ==
    /\ Len(v) = Len(name)
    /\ \A i \in 1..Len(v) : ToLower(v[i]) = ToLower(name[i])

\* v without the whitespace around it: from its first to its last character
\* that is no whitespace
Trimmed(v) ==
    LET solid == {i \in 1..Len(v) : ~IsSpace(v[i])} IN
    IF solid = {} THEN <<>>
    ELSE SubSeq(v, CHOOSE i \in solid : \A j \in solid : i <= j,
                   CHOOSE i \in solid : \A j \in solid : i >= j)

\* v, whitespace around it aside, is a casing of a voice of the set
IsKnownVoice(v) ==
    LET t == Trimmed(v) IN \E name \in YARNGPT_VOICES : IsCasingOf(t, name)

\* C8: a text of 0 to 2000 characters is accepted (given a valid voice and
\* format, and an API key), a longer one is rejected with TextTooLong before
\* any request, and the text sent to the backend is the whole input text.
C8_TextLengthLimit ==
    SynDone =>
        /\ Len(syn.text) > MaxTextLen => (syn.error = "TextTooLong" /\ ~syn.sent)
        /\ Len(syn.text) <= MaxTextLen => syn.error # "TextTooLong"
        /\ ( /\ Len(syn.text) <= MaxTextLen
             /\ IsKnownVoice(syn.voice)
             /\ syn.response_format \in {"mp3", "wav", "opus", "flac"}
             /\ syn.has_key ) => syn.sent
        /\ syn.sent => syn.payload.text = syn.text

\* a text of exactly 2000 characters was sent and synthesized
C8_AcceptedAtLimit ==
    /\ syn.pc = "returned"
    /\ syn.sent
    /\ Len(syn.text) = MaxTextLen
    /\ Len(syn.payload.text) = MaxTextLen

\* C9, as stated: every casing of a voice of the set resolves to the
\* canonical name, which is what is sent, and every name that is not a casing
\* of a voice of the set is rejected with UnknownVoice (the text being within
\* the limit).
C9_CasingsAndNothingElse ==
    (SynDone /\ Len(syn.text) <= MaxTextLen) =>
        /\ \A name \in YARNGPT_VOICES :
               IsCasingOf(syn.voice, name) =>
                   /\ syn.error # "UnknownVoice"
                   /\ syn.sent => syn.payload.voice = name
        /\ (~\E name \in YARNGPT_VOICES : IsCasingOf(syn.voice, name)) =>
               syn.error = "UnknownVoice"

\* C9, amended: the voice name is matched after its leading and trailing
\* whitespace is stripped: every casing of a voice of the set, with or
\* without whitespace around it, resolves to the canonical name, which is
\* what is sent; every other name is rejected with UnknownVoice (the text
\* being within the limit).
C9_TrimmedCasingsAndNothingElse ==
    (SynDone /\ Len(syn.text) <= MaxTextLen) =>
        /\ \A name \in YARNGPT_VOICES :
               IsCasingOf(Trimmed(syn.voice), name) =>
                   /\ syn.error # "UnknownVoice"
                   /\ syn.sent => syn.payload.voice = name
                   /\ (syn.response_format \in {"mp3", "wav", "opus", "flac"}
                       /\ syn.has_key) => syn.sent
        /\ ~IsKnownVoice(syn.voice) =>
               (syn.error = "UnknownVoice" /\ ~syn.sent)

\* "IDERA" was given and "Idera" was sent
C9_UpperCaseResolved ==
    /\ syn.pc = "returned"
    /\ syn.voice = <<"I", "D", "E", "R", "A">>
    /\ syn.sent
    /\ syn.payload.voice = <<"I", "d", "e", "r", "a">>

\* C10: output_path is written only when the text length, the voice and the
\* format pass validation and the backend answers with success; a validation
\* failure raises before any request is sent, a non-success response raises
\* SynthesisFailed, and in both cases the file is neither created nor
\* modified.
C10_WrittenOnlyOnSuccess ==
    SynDone =>
        LET valid == /\ Len(syn.text) <= MaxTextLen
                     /\ IsKnownVoice(syn.voice)
                     /\ syn.response_format \in {"mp3", "wav", "opus", "flac"}
        IN  /\ out_file # syn.file_before =>
                   (valid /\ syn.sent /\ syn.status_code = HttpOk
                    /\ syn.pc = "returned")
            /\ ~valid =>
                   /\ syn.pc = "raised"
                   /\ syn.error \in {"TextTooLong", "UnknownVoice", "InvalidFormat"}
                   /\ ~syn.sent
                   /\ out_file = syn.file_before
            /\ (syn.sent /\ syn.status_code \notin {0, HttpOk}) =>
                   /\ syn.pc = "raised"
                   /\ syn.error = "SynthesisFailed"
                   /\ out_file = syn.file_before
            /\ syn.pc = "returned" => out_file = "audio"

\* a non-success response left an existing file as it was
C10_FailureLeftFile ==
    /\ syn.pc = "raised"
    /\ syn.error = "SynthesisFailed"
    /\ syn.file_before = "old"
    /\ out_file = "old"

-----------------------------------------------------------------------------
(* Properties of the chat handler *)

\* request r is inside ask: its user turn is appended, its reply is awaited
InAsk(r) == reqs[r].pc = "asking"

\* request r is inside its handler
InHandler(r) == reqs[r].pc \in {"asking", "asked"}

\* C3, as stated: two chat requests in flight at the same time race on the
\* shared history, their appends interleave: while one request is inside ask,
\* between its user turn and its reply, another request that is ready can
\* append its own user turn.
C3_AppendsInterleave ==
    \A a, b \in Reqs :
        (a # b /\ InAsk(a) /\ reqs[b].pc = "ready") => ENABLED ChatAskBegin(b)

\* C3, amended: two chat requests in flight at the same time share the one
\* unsynchronized history, but their handlers never run interleaved: at most
\* one request is inside its handler, the last entry of the history is the
\* user turn of the request inside ask, and a user turn is immediately
\* followed by the user turn of another request only when the ask of the
\* first request raised.
C3_HandlersRunOneAtATime ==
    /\ \A a, b \in Reqs : (InHandler(a) /\ InHandler(b)) => a = b
    /\ \A r \in Reqs :
           InAsk(r) => chat_history[Len(chat_history)] =
                           [role |-> "user", content |-> TextOf(r)]
    /\ \A i \in 1..(Len(chat_history) - 1) :
           (chat_history[i].role = "user" /\ chat_history[i + 1].role = "user") =>
               \E r \in Reqs :
                   /\ chat_history[i].content = TextOf(r)
                   /\ reqs[r].pc = "failed"
                   /\ reqs[r].stage = "ask"

\* two requests are in flight at the same time: one is inside ask, the other
\* has arrived and waits for the event loop
C3_TwoInFlight ==
    \E a, b \in Reqs :
        /\ a # b
        /\ InAsk(a)
        /\ reqs[b].pc = "ready"
        /\ ~ENABLED ChatAskBegin(b)

-----------------------------------------------------------------------------
(* Properties of process_batch *)

BatchReturned == op.name = "process_batch" /\ op.pc = "returned"

IsErrorRecord(r) == DOMAIN r = {"audio_path", "error"}
IsTranscript(r) == DOMAIN r = {"audio_path", "text", "language", "segments"}

\* the file is missing, its format is not supported or the backend fails
ItemFails(fp, backend) ==
    \/ fp \notin SourceFiles
    \/ Lower(fp.suffix) \notin AUDIO_EXTENSIONS \cup VIDEO_EXTENSIONS
    \/ backend.kind \in {"unavailable", "error"}

\* C11: process_batch never raises on a per-item failure: it returns exactly
\* one result per input path, in input order; every item that failed (missing
\* file, unsupported format, backend error) is the record {audio_path: that
\* path, error: message}, every other item is a transcript, and the items
\* after a failed one have been processed all the same.
C11_OneResultPerPath ==
    BatchReturned =>
        /\ Len(op.results) = Len(op.filepaths)
        /\ Len(op.backends) = Len(op.filepaths)
        /\ \A i \in 1..Len(op.filepaths) :
            LET fp == op.filepaths[i]
                r == op.results[i] IN
            IF ItemFails(fp, op.backends[i])
            THEN IsErrorRecord(r) /\ r.audio_path = fp /\ r.error # "none"
            ELSE IsTranscript(r) /\ r.text = Strip(op.backends[i].text)

\* a batch returned whose first item failed and whose second is a transcript
C11_FailureThenSuccess ==
    /\ BatchReturned
    /\ Len(op.results) >= 2
    /\ IsErrorRecord(op.results[1])
    /\ IsTranscript(op.results[2])

-----------------------------------------------------------------------------
(* Properties of batch_synthesize *)

SynthBatchReturned == op.name = "batch_synthesize" /\ op.pc = "returned"

\* the synthesis of text goes through: the arguments are valid and the
\* service answers with HTTP 200
Synthesized(text, voice, response_format, service) ==
    /\ Len(text) <= MaxTextLen
    /\ IsKnownVoice(voice)
    /\ response_format \in RESPONSE_FORMATS
    /\ service.has_key /\ service.responded /\ service.status_code = HttpOk

\* C12: batch_synthesize never aborts on a per-item failure: the list it
\* returns is as long as its input; position i holds the output path of text
\* i, tts_output_<i>.<format> in the output directory, where the audio has
\* been written, if the synthesis of text i succeeded, and None if it failed;
\* the texts after a failed one have been synthesized all the same.
C12_OnePathOrNonePerText ==
    SynthBatchReturned =>
        /\ Len(op.output_paths) = Len(op.texts)
        /\ Len(op.services) = Len(op.texts)
        /\ \A i \in 1..Len(op.texts) :
            IF Synthesized(op.texts[i], op.voice, op.response_format, op.services[i])
            THEN /\ op.output_paths[i] =
                        Path("tts_output", <<"tts_output_">> \o Pad3(i),
                             <<".", op.response_format>>)
                 /\ op.output_paths[i] \in DOMAIN disk
            ELSE op.output_paths[i] = None

\* a batch returned whose first text failed and whose second was synthesized
C12_NoneThenPath ==
    /\ SynthBatchReturned
    /\ Len(op.output_paths) >= 2
    /\ op.output_paths[1] = None
    /\ op.output_paths[2] # None
    /\ op.output_paths[2] \in DOMAIN disk

-----------------------------------------------------------------------------
(* Properties of the collection of files *)

CollectedLocal == op.name = "collect_local_file" /\ op.pc \in {"returned", "raised"}

\* the extension of the file is in the allow-list, whatever its case
Supported(filepath) ==
    \E e \in AUDIO_EXTENSIONS \cup VIDEO_EXTENSIONS : IsCasingOf(filepath.suffix, e)

CollectedSource ==
    /\ op.name \in {"collect_local_file", "collect"}
    /\ op.pc \in {"returned", "raised"}
    /\ ~is_youtube_url(op.source)

-----------------------------------------------------------------------------
(* Properties of transcribe_all *)

TranscribedAll == op.name = "transcribe_all" /\ op.pc = "returned"

\* the record on disk holds the results returned, one per collected file,
\* and the accumulator has been extended by them
ResultsPersisted ==
    /\ TranscriptionsJson \in DOMAIN disk
    /\ disk[TranscriptionsJson] = op.results
    /\ Len(op.results) = Len(collected_files)
    /\ transcriptions = op.transcriptions_before \o op.results

\* C15: whenever transcribe_all completes on a pipeline that has collected
\* at least one file, transcriptions.json holds the full result list it
\* returns, one entry per collected file including the error entries of
\* failed items, and the accumulator has been extended by that same list;
\* on a pipeline that has collected nothing it returns the empty list and
\* writes nothing, leaving the disk and the accumulator as they were.
C15_ResultsPersistedUnlessNothingCollected ==
    TranscribedAll =>
        IF collected_files # <<>> THEN ResultsPersisted
        ELSE /\ op.results = <<>>
             /\ disk = op.before
             /\ transcriptions = op.transcriptions_before

\* transcribe_all has returned and saved a list with the error entry of a
\* failed item in it
C15_SavedWithErrorEntry ==
    /\ TranscribedAll
    /\ \E i \in 1..Len(op.results) : IsErrorRecord(op.results[i])
    /\ disk[TranscriptionsJson] = op.results

\* C15 as first stated: whenever transcribe_all completes, the record on
\* disk holds the result list it returns.
C15_ResultsAlwaysPersisted == TranscribedAll => ResultsPersisted

-----------------------------------------------------------------------------
(* Properties of the normalizer *)

Loaded == op.name = "load_audio_as_numpy" /\ op.pc = "returned"

\* x and y are the same number
SameNumber(x, y) ==
    IF x.n = 0 \/ y.n = 0 THEN x.n = y.n
    ELSE LET k0 == IF x.k <= y.k THEN x.k ELSE y.k IN
         Numerator(x, k0) = Numerator(y, k0)

\* the factor of the scaling, as a power of two: 32768 = 2^15 for 16-bit
\* samples, 2147483648 = 2^31 for 32-bit ones, none for floats
ScaleBitsOf(dtype) ==
    IF dtype = "int16" THEN 15 ELSE IF dtype = "int32" THEN 31 ELSE 0

\* the sum of the channels of frame i of the input
ChannelSum(wav, i) ==
    IF wav.ndim = 1 THEN wav.data[i][1] ELSE Plus(wav.data[i][1], wav.data[i][2])

\* C16: for every loadable WAV input of 16-bit integer, 32-bit integer or
\* float samples, mono or stereo, at any source rate, the output of the
\* normalizer is a single-channel float32 sequence at 16000 Hz; resampling
\* runs exactly when the source rate is not 16000 and gives
\* int(len * 16000 / rate) samples; without resampling every output sample
\* is the average of the channels of its frame, scaled by 1/32768 for 16-bit
\* and 1/2147483648 for 32-bit integer samples.
C16_MonoFloatAtTargetRate ==
    (Loaded /\ op.wav.dtype \in {"int16", "int32", "float32", "float64"}) =>
        LET wav == op.wav
            audio == op.audio
            channels == IF wav.ndim = 1 THEN 1 ELSE 2 IN
        /\ audio.dtype = "float32"
        /\ audio.ndim = 1
        /\ audio.sr = 16000
        /\ audio.resampled <=> wav.sr # 16000
        /\ audio.resampled => Len(audio.data) = (Len(wav.data) * 16000) \div wav.sr
        /\ ~audio.resampled =>
            /\ Len(audio.data) = Len(wav.data)
            /\ \A i \in 1..Len(wav.data) :
                SameNumber(Sample(audio.data[i].n * channels,
                                  audio.data[i].k + ScaleBitsOf(wav.dtype)),
                           ChannelSum(wav, i))

\* a stereo 32-bit waveform at a rate below the target has been normalized
C16_StereoInt32Upsampled ==
    /\ Loaded
    /\ op.wav.dtype = "int32"
    /\ op.wav.ndim = 2
    /\ op.wav.sr < 16000
    /\ op.audio.resampled

-----------------------------------------------------------------------------
(* Properties of the audio-serving operation *)

\* a request for a file that existed has been answered
AudioFound == op.name = "get_audio" /\ op.found

\* the age of file f when the request was handled
AgeAtRequest(f) == op.at - op.mtime_before[f]

\* C18: the audio-serving operation runs the TTL sweep after it has found
\* that the requested file exists: a file of the directory that is older
\* than the TTL (300 seconds) at that moment, the requested file included,
\* is deleted by the very request, and a file younger than the TTL is not
\* deleted; a request for a file that does not exist sweeps nothing.
C18_SweepAfterExistenceCheck ==
    /\ AudioFound =>
        /\ op.filename \in op.dir_before
        /\ op.swept
        /\ \A f \in op.dir_before :
            /\ AgeAtRequest(f) > 300 => f \notin op.dir_after
            /\ AgeAtRequest(f) < 300 => f \in op.dir_after
    /\ (op.name = "get_audio" /\ ~op.found) =>
        /\ op.filename \notin op.dir_before
        /\ ~op.swept
        /\ op.dir_after = op.dir_before

\* the request has deleted the file it has found, and has kept a younger one
C18_RequestedFileDeleted ==
    /\ AudioFound
    /\ AgeAtRequest(op.filename) > 300
    /\ op.filename \notin op.dir_after
    /\ \E f \in op.dir_before : AgeAtRequest(f) < 300 /\ f \in op.dir_after

-----------------------------------------------------------------------------
(* Properties of speak *)

\* a speak call with no filename has written its audio
SpokeUnnamed == op.name = "speak" /\ op.pc = "returned" /\ op.filename = None

\* C19: after any sequence of speak calls, batch syntheses and file
\* deletions in the tts_output directory, a speak call with no filename
\* writes to a name speech_NNN.<format> that did not exist before the call.
C19_AutoNameIsFresh ==
    SpokeUnnamed =>
        /\ op.output_path.stem[1] = "speech_"
        /\ ~op.existed

-----------------------------------------------------------------------------
(* Properties of the handlers that take an upload *)

\* the request has been answered
Answered(v) == vreqs[v].pc \in {"done", "failed"}

\* the files of the audio directory that carry the id of request v
FilesOf(v) == {f \in audio_dir : f.stem[1] = "id" /\ f.stem[2] = Digit[v + 1]}

-----------------------------------------------------------------------------
(* Properties of an empty answer *)

\* the completion content is null, empty or white space only
IsBlank(content) ==
    content.isNone \/ \A i \in 1..Len(content.text) : IsSpace(content.text[i])

\* the buffer full_text that _parse_sse holds when its loop over the lines
\* of the answered stream has ended
StreamText == SseLoop(call.lines, 1, EmptyStr).full_text

\* the history of the call after its user turn, followed by turns
HistoryWith(turns) == AppendUser(call.before, call.user_text) \o turns

\* C21: in the direct-completion variant, when the completion content is
\* null or blank, ask raises no error: it returns the empty string and
\* appends an assistant turn with empty content to the history; the
\* streaming variant raises on an empty text instead, appends no assistant
\* turn, and never returns the empty string.
C21_BlankCompletionReturnsEmpty ==
    /\ (provider = "groq" /\ call.pc \in {"returned", "raised"}
            /\ call.error # "BackendError" /\ IsBlank(call.content))
        => /\ call.pc = "returned"
           /\ call.reply = EmptyStr
           /\ chat_history = HistoryWith(<<AssistantTurn(EmptyStr)>>)
    /\ (provider = "monei" /\ call.pc \in {"returned", "raised"}
            /\ call.error # "BackendError" /\ StreamText = EmptyStr)
        => /\ call.pc = "raised"
           /\ call.error = "EmptyResponse"
           /\ chat_history = HistoryWith(<<>>)
    /\ (provider = "monei" /\ call.pc = "returned") => call.reply # EmptyStr

\* a direct-completion ask has returned on a content of white space only
C21_BlankCompletionReturned ==
    /\ provider = "groq"
    /\ call.pc = "returned"
    /\ call.content = Content(<<" ">>)
    /\ call.reply = EmptyStr
    /\ chat_history[Len(chat_history)] = AssistantTurn(EmptyStr)

====
